---- MODULE Spec2Model ----
(***************************************************************************)
(* Daily challenge generator: word selection (src/src/words.rs), the day   *)
(* index (src/src/models.rs) and the run that generates and publishes one  *)
(* day (src/src/app.rs).                                                   *)
(***************************************************************************)
EXTENDS Integers, Sequences, FiniteSets, TLC

VARIABLES
    word_selector,  \* WordSelector: the three category lists of the app
    rng,            \* state of the thread-local random generator
    pc,             \* position of the caller: which call is running
    attempts,       \* select_words: iterations of the attempt loop so far
    samples,        \* select_words: random samples drawn so far
    select_result,  \* what select_words returned, status "none" while running
    dry_run,        \* App.dry_run
    days_json,      \* storage: the object days.json
    day_files,      \* storage: the objects days/<date>.json, by date
    today_json,     \* storage: the object today.json
    local_files,    \* dates with a <date>.json in the output directory
    runs,           \* calls of run started so far
    date,           \* run: the target date
    days,           \* run: the Days value held by the run
    id,             \* run: the id resolved for the target date
    challenges,     \* generate_day: the result of each wrapped build
    result,         \* what run returned, status "none" while running
    loaded,         \* history: the Days value as loaded at the start of the run
    fetched,        \* history: how the index load of this run ended
    faulted,        \* history: the collaborator calls of this run that failed
    uploads,        \* history: the JSON keys uploaded by this run, in order
    first_id,       \* history: per date, the id of its first published day
    prev,           \* history: the previous completed run
    today,          \* run: the local date read before the today.json upload
    step,           \* wrapped build: the call that runs next
    difficulty,     \* wrapped build: the difficulty label
    retry_strategy, \* wrapped build: the delays left in the retry strategy
    builds,         \* wrapped build: calls of create_challenge so far
    attempt,        \* create_challenge: the image attempt counter
    prompt_log,     \* history: outcome of each generate_prompt call, in order
    image_calls,    \* history: generate_image calls of this create_challenge
    qa_log,         \* history: detect_text answers of this create_challenge
    fault,          \* history: the call of this create_challenge that failed
    failed_calls,   \* history: the calls that failed in any create_challenge
    delays,         \* history: the delays slept between builds, in ms
    backoff,        \* history: ms slept in the image loop of this build
    build_result,   \* what the last create_challenge returned
    challenge_result, \* what create_challenge_with_retry returned
    error_log,      \* the error! lines of create_challenge_with_retry
    words,          \* wrapped build: the word group it was called with
    prompt,         \* create_challenge: the prompt held, 0 before there is one
    image_data,     \* create_challenge: the image held, 0 before there is one
    image_args,     \* history: the arguments of each generate_image call
    processed,      \* history: the images handed to process_image
    image_uploads,  \* history: the image objects uploaded by this build
    challenge,      \* the Challenge create_challenge_with_retry returned
    image_files,    \* storage: the keys of the image objects under images/
    built,          \* generate_day: the Challenge each wrapped build returned
    reads,          \* history: read_json calls for days.json in this run
    added,          \* history: the entries that runs added to days.json
    tries,          \* history: per difficulty, its calls of create_challenge
    failed_first,   \* history: the difficulty whose wrapped build failed first
    last_build      \* history: the provider calls of the latest create_challenge

wordVars == <<word_selector, rng, attempts, samples, select_result>>

storageVars == <<days_json, day_files, today_json, local_files>>

runVars == <<dry_run, runs, date, days, id, challenges, result>>

historyVars == <<loaded, fetched, faulted, uploads, first_id, prev>>

buildVars == <<step, difficulty, retry_strategy, builds, attempt, prompt_log,
               image_calls, qa_log, fault, failed_calls, delays, backoff,
               build_result, challenge_result, error_log,
               words, prompt, image_data, image_args, processed,
               image_uploads, challenge>>

publishVars == <<image_files, built, reads, added>>

joinVars == <<tries, failed_first, last_build>>

vars == <<wordVars, storageVars, runVars, historyVars, pc, today, buildVars,
          publishVars, joinVars>>

----------------------------------------------------------------------------
(* Bounds *)

\* rng states the generator may be in when a selection starts: 0..MaxSeed
MaxSeed == 23

\* calls of run made on one app
MaxRuns == 2

----------------------------------------------------------------------------
(* Words.  A word text is a sequence of characters. *)

\* char::to_lowercase on the characters used in the catalogs
LowerChar(c) ==
    CASE c = "A" -> "a"
      [] c = "B" -> "b"
      [] c = "P" -> "p"
      [] OTHER -> c

\* str::to_lowercase
ToLowercase(s) == [i \in 1..Len(s) |-> LowerChar(s[i])]

W(c) == <<c>>

\* a catalog in which a duplicate-free selection exists; it holds the case
\* variants "A"/"a" among the objects and shares "b" and "P"/"p" between
\* categories
RichCatalog ==
    [objects  |-> <<W("a"), W("b"), W("c"), W("d"), W("e"), W("f"), W("g"), W("A")>>,
     gerunds  |-> <<W("p"), W("q"), W("r"), W("s"), W("b")>>,
     concepts |-> <<W("x"), W("P")>>]

\* list sizes of the selector of the unit tests: 14 objects, 12 gerunds and
\* 6 concepts, all distinct
TestCatalog ==
    [objects  |-> <<W("a"), W("b"), W("c"), W("d"), W("e"), W("f"), W("g"),
                    W("h"), W("i"), W("j"), W("k"), W("l"), W("m"), W("n")>>,
     gerunds  |-> <<W("o"), W("p"), W("q"), W("r"), W("s"), W("t"),
                    W("u"), W("v"), W("w"), W("x"), W("y"), W("z")>>,
     concepts |-> <<W("1"), W("2"), W("3"), W("4"), W("5"), W("6")>>]

\* exactly the words one selection needs, all distinct
ExactCatalog ==
    [objects  |-> <<W("a"), W("b"), W("c"), W("d"), W("e"), W("f"), W("g")>>,
     gerunds  |-> <<W("p"), W("q"), W("r"), W("s")>>,
     concepts |-> <<W("x")>>]

\* long enough for every single draw, too short for twelve distinct words
SmallCatalog ==
    [objects  |-> <<W("a"), W("b"), W("c")>>,
     gerunds  |-> <<W("p"), W("q")>>,
     concepts |-> <<W("x")>>]

\* seven objects that are only six words when case is ignored
CaseCatalog ==
    [objects  |-> <<W("a"), W("A"), W("c"), W("d"), W("e"), W("f"), W("g")>>,
     gerunds  |-> <<W("p"), W("q"), W("r"), W("s")>>,
     concepts |-> <<W("x")>>]

NoGerundCatalog ==
    [objects  |-> <<W("a"), W("b"), W("c"), W("d"), W("e"), W("f"), W("g")>>,
     gerunds  |-> <<W("p")>>,
     concepts |-> <<W("x")>>]

NoObjectCatalog ==
    [objects  |-> <<W("a"), W("b")>>,
     gerunds  |-> <<W("p"), W("q"), W("r"), W("s")>>,
     concepts |-> <<W("x")>>]

NoConceptCatalog ==
    [objects  |-> <<W("a"), W("b"), W("c"), W("d"), W("e"), W("f"), W("g")>>,
     gerunds  |-> <<W("p"), W("q"), W("r"), W("s")>>,
     concepts |-> <<>>]

Catalogs == {TestCatalog, RichCatalog, ExactCatalog, SmallCatalog, CaseCatalog,
             NoGerundCatalog, NoObjectCatalog, NoConceptCatalog}

----------------------------------------------------------------------------
(* The random generator and choose_multiple *)

\* one step of the generator (a full-period linear congruential generator)
RngNext(s) == (s * 75 + 74) % 65537

\* rng.gen_range(0..n) read off the generator state s
GenRange(s, n) == s % n

\* position (1-based) of x in the sequence seq, 0 when absent
Position(seq, x) ==
    IF \E i \in 1..Len(seq) : seq[i] = x
    THEN CHOOSE i \in 1..Len(seq) : seq[i] = x /\ \A k \in 1..(i - 1) : seq[k] # x
    ELSE 0

InsertAt(seq, pos, x) ==
    SubSeq(seq, 1, pos - 1) \o <<x>> \o SubSeq(seq, pos, Len(seq))

\* rand's index sampling for small amounts (Floyd's algorithm): `amount`
\* distinct indices in 0..length-1, one generator step per index
RECURSIVE SampleFloyd(_, _, _, _)
SampleFloyd(j, length, indices, s) ==
    IF j >= length
    THEN [indices |-> indices, rng |-> s]
    ELSE LET s1  == RngNext(s)
             t   == GenRange(s1, j + 1)
             pos == Position(indices, t)
         IN IF pos # 0
            THEN SampleFloyd(j + 1, length, InsertAt(indices, pos, j), s1)
            ELSE SampleFloyd(j + 1, length, Append(indices, t), s1)

\* word_list.choose_multiple(rng, count): count entries at distinct indices
ChooseMultiple(word_list, count, s) ==
    LET f == SampleFloyd(Len(word_list) - count, Len(word_list), <<>>, s)
    IN [selected |-> [i \in 1..count |-> word_list[f.indices[i] + 1]],
        rng |-> f.rng]

----------------------------------------------------------------------------
(* Results, dates and the day index *)

NoResult == [status |-> "none", error |-> "none", origin |-> "none"]

OkResult == [status |-> "ok", error |-> "none", origin |-> "none"]

Err(e) == [status |-> "err", error |-> e, origin |-> "none"]

\* the error of the wrapped build of difficulty d, returned by generate_day.
\* The Error value has no field for the difficulty (src/src/error.rs); origin
\* records which build it came from.
ChallengeErr(d) == [status |-> "err", error |-> "challenge", origin |-> d]

\* the dates run is called for, and one more date that only earlier runs
\* published
Dates == {"2099-01-01", "2099-01-02"}

OtherDate == "2098-12-31"

AllDates == Dates \cup {OtherDate}

\* i32::MAX, the largest id of a DateEntry
I32_MAX == 2147483647

\* DateEntry
DateEntry(d, i) == [date |-> d, id |-> i]

\* Days::new
NewDays == <<>>

\* variant: an add_day that puts the new entry first
AddDayFirst(ds, d, i) == <<DateEntry(d, i)>> \o ds

\* Days::add_day
AddDay(ds, d, i) == Append(ds, DateEntry(d, i))

\* variant: a find_by_date that never finds the date
FindByDateAlwaysNone(ds, d) == [some |-> FALSE, id |-> 0]

\* Days::find_by_date: the first entry of the date, None when there is none
FindByDate(ds, d) ==
    IF \E k \in 1..Len(ds) : ds[k].date = d
    THEN LET k == CHOOSE k \in 1..Len(ds) :
                     ds[k].date = d /\ \A m \in 1..(k - 1) : ds[m].date # d
         IN [some |-> TRUE, id |-> ds[k].id]
    ELSE [some |-> FALSE, id |-> 0]

\* variant: a max_id that takes the id of the last entry
MaxIdLast(ds) ==
    IF Len(ds) = 0
    THEN [some |-> FALSE, id |-> 0]
    ELSE [some |-> TRUE, id |-> ds[Len(ds)].id]

\* Days::max_id: the largest id, None for an empty index
MaxId(ds) ==
    IF Len(ds) = 0
    THEN [some |-> FALSE, id |-> 0]
    ELSE [some |-> TRUE,
          id |-> CHOOSE m \in {ds[k].id : k \in 1..Len(ds)} :
                     \A k \in 1..Len(ds) : ds[k].id <= m]

\* variant: a wrapping add in place of checked_add
WrappingAdd1(n) ==
    [some |-> TRUE, id |-> IF n = I32_MAX THEN -I32_MAX - 1 ELSE n + 1]

\* i32::checked_add(1)
CheckedAdd1(n) ==
    IF n = I32_MAX THEN [some |-> FALSE, id |-> 0] ELSE [some |-> TRUE, id |-> n + 1]

\* variant: an id resolution that skips the lookup of the existing entry
ResolveIdAlwaysNew(ds, d) ==
    LET m == MaxId(ds)
    IN CheckedAdd1(IF m.some THEN m.id ELSE 0)

\* the id run resolves for a date (the if let of run): the id of the existing
\* entry, else max_id().unwrap_or(0).checked_add(1), None on overflow
ResolveId(ds, d) ==
    LET existing == FindByDate(ds, d)
        m == MaxId(ds)
    IN IF existing.some
       THEN existing
       ELSE CheckedAdd1(IF m.some THEN m.id ELSE 0)

(* Stored objects.  A stored JSON object is absent, text that does not parse
   as what is read from it, or the serialization of a value. *)

Absent == [kind |-> "absent"]

Garbage == [kind |-> "garbage"]

\* serde_json::to_string_pretty of a Days value
DaysToJson(ds) == [kind |-> "days", days |-> ds]

\* serde_json::to_string_pretty of a Day value
DayToJson(day) == [kind |-> "day", day |-> day]

\* CdnService::read_json followed by serde_json::from_str::<Days>, as in
\* fetch_days: an error when the transport fails, the object is absent or the
\* text does not parse
FetchDays(transport_ok) ==
    IF ~transport_ok THEN [ok |-> FALSE, days |-> NewDays, how |-> "read_error"]
    ELSE IF days_json.kind = "absent"
         THEN [ok |-> FALSE, days |-> NewDays, how |-> "not_found"]
    ELSE IF days_json.kind # "days"
         THEN [ok |-> FALSE, days |-> NewDays, how |-> "parse_error"]
    ELSE [ok |-> TRUE, days |-> days_json.days, how |-> "ok"]

\* the entries of the stored index, none when it is absent or does not parse
StoredEntries ==
    IF days_json.kind = "days"
    THEN {days_json.days[k] : k \in 1..Len(days_json.days)}
    ELSE {}

Difficulties == {"easy", "medium", "hard", "dreaming"}

\* the order in which generate_day unwraps the four results
DifficultyOrder == <<"easy", "medium", "hard", "dreaming">>

----------------------------------------------------------------------------
(* WordSelector *)

\* variant: every word is tagged as an object
SelectRandomWordsUntagged(word_list, count, word_type, s) ==
    IF Len(word_list) < count
    THEN [ok |-> FALSE, words |-> <<>>, rng |-> s, sampled |-> 0]
    ELSE LET c == ChooseMultiple(word_list, count, s)
         IN [ok |-> TRUE,
             words |-> [i \in 1..count |->
                          [word |-> c.selected[i], word_type |-> "object"]],
             rng |-> c.rng, sampled |-> 1]

\* variant: a list of exactly count words is refused
SelectRandomWordsOffByOne(word_list, count, word_type, s) ==
    IF Len(word_list) <= count
    THEN [ok |-> FALSE, words |-> <<>>, rng |-> s, sampled |-> 0]
    ELSE LET c == ChooseMultiple(word_list, count, s)
         IN [ok |-> TRUE,
             words |-> [i \in 1..count |->
                          [word |-> c.selected[i], word_type |-> word_type]],
             rng |-> c.rng, sampled |-> 1]

\* the Ok/Err of select_random_words, with the generator state it leaves and
\* whether a sample was drawn
SelectRandomWords(word_list, count, word_type, s) ==
    IF Len(word_list) < count
    THEN [ok |-> FALSE, words |-> <<>>, rng |-> s, sampled |-> 0]
    ELSE LET c == ChooseMultiple(word_list, count, s)
         IN [ok |-> TRUE,
             words |-> [i \in 1..count |->
                          [word |-> c.selected[i], word_type |-> word_type]],
             rng |-> c.rng, sampled |-> 1]

\* the draws of generate_word_sets in program order:
\* <<difficulty, category list, count, word type>>
DrawPlan ==
    << <<"easy",     "objects",  3, "object">>,
       <<"medium",   "objects",  2, "object">>,
       <<"medium",   "gerunds",  1, "gerund">>,
       <<"hard",     "objects",  1, "object">>,
       <<"hard",     "gerunds",  2, "gerund">>,
       <<"dreaming", "objects",  1, "object">>,
       <<"dreaming", "gerunds",  1, "gerund">>,
       <<"dreaming", "concepts", 1, "concept">> >>

EmptyWordSets == [easy |-> <<>>, medium |-> <<>>, hard |-> <<>>, dreaming |-> <<>>]

\* generate_word_sets: the draws one after the other, returning at the first
\* draw that fails (the ? operator)
RECURSIVE GenerateFrom(_, _, _, _, _)
GenerateFrom(sel, i, sets, s, n) ==
    IF i > Len(DrawPlan)
    THEN [ok |-> TRUE, sets |-> sets, rng |-> s, sampled |-> n]
    ELSE LET d == DrawPlan[i]
         IN \* r is the result of the draw, evaluated once
            CHOOSE out \in
              {IF ~r.ok
               THEN [ok |-> FALSE, sets |-> EmptyWordSets, rng |-> r.rng, sampled |-> n]
               ELSE GenerateFrom(sel, i + 1,
                                 [sets EXCEPT ![d[1]] = @ \o r.words],
                                 r.rng, n + r.sampled)
                 : r \in {SelectRandomWords(sel[d[2]], d[3], d[4], s)}} : TRUE

GenerateWordSets(sel, s) == GenerateFrom(sel, 1, EmptyWordSets, s, 0)

\* WordSets::all_words
AllWords(sets) == sets.easy \o sets.medium \o sets.hard \o sets.dreaming

\* variant: a uniqueness test that compares the texts as written
AllWordsUniqueNoLowercase(sets) ==
    LET all == AllWords(sets)
    IN \A i \in 1..Len(all) :
          all[i].word \notin {all[k].word : k \in 1..(i - 1)}

\* all_words_unique: insert each lowercased text into a set, false at the
\* first one already there
AllWordsUnique(sets) ==
    LET all == AllWords(sets)
    IN \A i \in 1..Len(all) :
          ToLowercase(all[i].word) \notin
              {ToLowercase(all[k].word) : k \in 1..(i - 1)}

MAX_ATTEMPTS == 100

NoSelection == [status |-> "none", sets |-> EmptyWordSets, error |-> "none"]

\* one iteration of the loop of select_words, with the return it leads to:
\* the error of generate_word_sets, the first duplicate-free sets, or the
\* error after the last iteration.  An error is propagated by generate_day
\* and returned by run.
SelectWordsAttempt ==
    /\ pc = "select"
    /\ attempts < MAX_ATTEMPTS
    /\ \E g \in {GenerateWordSets(word_selector, rng)} :
          /\ rng' = g.rng
          /\ samples' = samples + g.sampled
          /\ attempts' = attempts + 1
          /\ IF ~g.ok
             THEN /\ select_result' = [status |-> "err", sets |-> EmptyWordSets,
                                       error |-> "not_enough_words"]
                  /\ result' = Err("word_selection")
                  /\ pc' = "done"
             ELSE IF AllWordsUnique(g.sets)
             THEN /\ select_result' = [status |-> "ok", sets |-> g.sets,
                                       error |-> "none"]
                  /\ UNCHANGED result
                  /\ pc' = "build"
             ELSE IF attempts + 1 >= MAX_ATTEMPTS
             THEN /\ select_result' = [status |-> "err", sets |-> EmptyWordSets,
                                       error |-> "no_unique_words"]
                  /\ result' = Err("word_selection")
                  /\ pc' = "done"
             ELSE /\ UNCHANGED <<select_result, result>>
                  /\ pc' = "select"
    /\ UNCHANGED <<word_selector, storageVars, historyVars>>
    /\ UNCHANGED <<dry_run, runs, date, days, id, challenges>>
    /\ UNCHANGED <<today, buildVars, publishVars, joinVars>>

----------------------------------------------------------------------------
(* One challenge: create_challenge and the retry around it.  The providers,
   the image processor and the storage may fail at any call, and the text
   detector may report text on any image, so one call has a set of possible
   outcomes.  The image objects are stored under keys made from a fresh
   UUID; no call reads them back and no key of theirs is a JSON key, so the
   storage model keeps the JSON objects only. *)

MAX_IMAGE_ATTEMPTS == 3

\* delays of FixedInterval::from_millis(2000).take(3): Retry::spawn runs the
\* build once and once more after each delay
RETRY_DELAYS == 3

\* what one create_challenge did: generate_prompt is its first statement and
\* outside the image loop, so every invocation calls it once
BuildOk(n) ==
    [ok |-> TRUE, error |-> "none", prompt_calls |-> 1, image_calls |-> n,
     qa_calls |-> n, uploaded |-> {"jpeg", "webp"}]

BuildErr(e, images, answers, up) ==
    [ok |-> FALSE, error |-> e, prompt_calls |-> 1, image_calls |-> images,
     qa_calls |-> answers, uploaded |-> up]

\* create_challenge after the image loop, with n images generated:
\* process_image, reading the two files, the JPEG upload, the WebP upload
AfterImageLoop(n) ==
    {BuildErr("process_image", n, n, {}),
     BuildErr("read_image_file", n, n, {}),
     BuildErr("upload_jpeg", n, n, {}),
     BuildErr("upload_webp", n, n, {"jpeg"}),
     BuildOk(n)}

\* the image loop of create_challenge from the iteration that makes n the
\* attempt number: generate_image, detect_text, then leave the loop when
\* no text was found or the attempts are used up, else go round again
RECURSIVE ImageLoop(_)
ImageLoop(n) ==
    {BuildErr("generate_image", n, n - 1, {}),
     BuildErr("detect_text", n, n, {})}
    \cup AfterImageLoop(n)
    \cup (IF n >= MAX_IMAGE_ATTEMPTS
          THEN AfterImageLoop(n)
          ELSE ImageLoop(n + 1))

\* create_challenge: generate_prompt, then the image loop
CreateChallenge ==
    {BuildErr("generate_prompt", 0, 0, {})} \cup ImageLoop(1)

\* create_challenge_with_retry with `left` delays left in the strategy and
\* `made` builds already failed: the first Ok is returned; an Err is
\* returned when no delay is left, else the build runs again after a delay
RECURSIVE RetryFrom(_, _, _)
RetryFrom(left, made, up) ==
    LET failed == {o \in CreateChallenge : ~o.ok}
    IN {[ok |-> TRUE, error |-> "none", tries |-> made + 1, uploaded |-> TRUE]
           : o \in {o \in CreateChallenge : o.ok}}
       \cup
       (IF left = 0
        THEN {[ok |-> FALSE, error |-> o.error, tries |-> made + 1,
               uploaded |-> up \/ o.uploaded # {}] : o \in failed}
        ELSE UNION {RetryFrom(left - 1, made + 1, u)
                       : u \in {up \/ o.uploaded # {} : o \in failed}})

CreateChallengeWithRetry == RetryFrom(RETRY_DELAYS, 0, FALSE)

----------------------------------------------------------------------------
(* One wrapped build, call by call: create_challenge_with_retry for one
   difficulty, each collaborator call a step whose outcome is any the
   collaborator can give *)

\* the interval of FixedInterval::from_millis(2000), and the sleep of the
\* image loop (Duration::from_secs(1)), in ms
RETRY_INTERVAL_MS == 2000

IMAGE_BACKOFF_MS == 1000

\* variant: a strategy of one delay
RetryStrategyOne == <<RETRY_INTERVAL_MS>>

\* FixedInterval::from_millis(2000).take(3): the delays the strategy yields
RetryStrategy == [i \in 1..RETRY_DELAYS |-> RETRY_INTERVAL_MS]

NoError == [call |-> "none", label |-> "none"]

\* the Error a failed collaborator call returns: it comes from that call;
\* no variant of Error (src/src/error.rs) has a field for the difficulty, and
\* create_challenge adds nothing to it (the ? operator)
ErrorOf(call) == [call |-> call, label |-> "none"]

NoBuildResult == [status |-> "none", error |-> NoError]

ChallengeOk == [status |-> "ok", error |-> NoError]

ChallengeFailed(e) == [status |-> "err", error |-> e]

NoChallenge ==
    [words |-> <<>>, image_path |-> <<>>, image_url_jpg |-> <<>>,
     image_url_webp |-> <<>>, prompt |-> 0]

\* the key of an image object: images/<file name>, the file name made by
\* process_image from a fresh UUID, so one pair of keys per build
ImageKey(build, kind) == <<"images", build, kind>>

\* the URL upload_file returns for a key
UrlOf(key) == <<"url", key>>

\* no wrapped build is running
NoBuild ==
    /\ step = "idle"
    /\ difficulty = "none"
    /\ retry_strategy = <<>>
    /\ builds = 0
    /\ attempt = 0
    /\ prompt_log = <<>>
    /\ image_calls = 0
    /\ qa_log = <<>>
    /\ fault = "none"
    /\ failed_calls = {}
    /\ delays = <<>>
    /\ backoff = 0
    /\ build_result = NoBuildResult
    /\ challenge_result = NoBuildResult
    /\ error_log = <<>>
    /\ words = <<>>
    /\ prompt = 0
    /\ image_data = 0
    /\ image_args = <<>>
    /\ processed = <<>>
    /\ image_uploads = <<>>
    /\ challenge = NoChallenge

\* the call succeeded and create_challenge goes on with the next one
Proceed(next) ==
    /\ step' = next
    /\ UNCHANGED <<fault, failed_calls, build_result, retry_strategy, delays,
                   challenge_result, error_log>>

\* the call failed: create_challenge returns its error (the ? operator) and
\* the closure passes it on.  Retry::spawn takes the next delay of the
\* strategy, sleeps and calls create_challenge again; when the strategy
\* yields no delay it returns the error, which map_err logs with the
\* difficulty and returns as it is.
BuildFails(call) ==
    /\ fault' = call
    /\ failed_calls' = failed_calls \cup {call}
    /\ build_result' = ChallengeFailed(ErrorOf(call))
    /\ IF retry_strategy = <<>>
       THEN /\ challenge_result' = build_result'
            /\ error_log' = Append(error_log, [difficulty |-> difficulty,
                                               error |-> ErrorOf(call)])
            /\ step' = "returned"
            /\ UNCHANGED <<retry_strategy, delays>>
       ELSE /\ delays' = Append(delays, Head(retry_strategy))
            /\ retry_strategy' = Tail(retry_strategy)
            /\ step' = "generate_prompt"
            /\ UNCHANGED <<challenge_result, error_log>>

\* what a step of the wrapped build leaves alone
BuildFrame ==
    UNCHANGED <<wordVars, storageVars, runVars, historyVars, pc, today,
                difficulty, words, publishVars, joinVars>>

\* create_challenge is entered and calls generate_prompt
GeneratePrompt(ok) ==
    /\ step = "generate_prompt"
    /\ builds' = builds + 1
    /\ prompt_log' = Append(prompt_log, ok)
    /\ attempt' = 0
    /\ image_calls' = 0
    /\ qa_log' = <<>>
    /\ backoff' = 0
    /\ prompt' = IF ok THEN Len(prompt_log) + 1 ELSE 0
    /\ image_data' = 0
    /\ image_args' = <<>>
    /\ processed' = <<>>
    /\ image_uploads' = <<>>
    /\ UNCHANGED challenge
    /\ IF ok
       THEN /\ step' = "generate_image"
            /\ fault' = "none"
            /\ build_result' = NoBuildResult
            /\ UNCHANGED <<failed_calls, retry_strategy, delays,
                           challenge_result, error_log>>
       ELSE BuildFails("generate_prompt")
    /\ BuildFrame

\* variant: generate_image is given the prompt of the first build
GenerateImageFirstPrompt(ok) ==
    /\ step = "generate_image"
    /\ attempt' = attempt + 1
    /\ image_calls' = image_calls + 1
    /\ image_args' = Append(image_args, [prompt |-> 1, words |-> words])
    /\ image_data' = IF ok THEN attempt' ELSE image_data
    /\ IF ok THEN Proceed("detect_text") ELSE BuildFails("generate_image")
    /\ UNCHANGED <<builds, prompt_log, qa_log, backoff, prompt, processed,
                   image_uploads, challenge>>
    /\ BuildFrame

\* an iteration of the image loop starts: attempt += 1, generate_image
GenerateImage(ok) ==
    /\ step = "generate_image"
    /\ attempt' = attempt + 1
    /\ image_calls' = image_calls + 1
    /\ image_args' = Append(image_args, [prompt |-> prompt, words |-> words])
    /\ image_data' = IF ok THEN attempt' ELSE image_data
    /\ IF ok THEN Proceed("detect_text") ELSE BuildFails("generate_image")
    /\ UNCHANGED <<builds, prompt_log, qa_log, backoff, prompt, processed,
                   image_uploads, challenge>>
    /\ BuildFrame

\* variant: an error of detect_text is taken for an image without text
DetectTextSwallowsError(answer) ==
    /\ step = "detect_text"
    /\ qa_log' = Append(qa_log, answer)
    /\ IF answer \in {"err", "clean"}
       THEN Proceed("process_image") /\ UNCHANGED backoff
       ELSE IF attempt >= MAX_IMAGE_ATTEMPTS
       THEN Proceed("process_image") /\ UNCHANGED backoff
       ELSE Proceed("generate_image") /\ backoff' = backoff + IMAGE_BACKOFF_MS
    /\ UNCHANGED <<builds, prompt_log, attempt, image_calls, prompt, image_data,
                   image_args, processed, image_uploads, challenge>>
    /\ BuildFrame

\* variant: text on the last attempt makes create_challenge fail
DetectTextFailsOnText(answer) ==
    /\ step = "detect_text"
    /\ qa_log' = Append(qa_log, answer)
    /\ IF answer = "err"
       THEN BuildFails("detect_text") /\ UNCHANGED backoff
       ELSE IF answer = "clean"
       THEN Proceed("process_image") /\ UNCHANGED backoff
       ELSE IF attempt >= MAX_IMAGE_ATTEMPTS
       THEN BuildFails("detect_text") /\ UNCHANGED backoff
       ELSE Proceed("generate_image") /\ backoff' = backoff + IMAGE_BACKOFF_MS
    /\ UNCHANGED <<builds, prompt_log, attempt, image_calls, prompt, image_data,
                   image_args, processed, image_uploads, challenge>>
    /\ BuildFrame

\* variant: the loop is left only when the attempts are used up
DetectTextIgnoringAnswer(answer) ==
    /\ step = "detect_text"
    /\ qa_log' = Append(qa_log, answer)
    /\ IF answer = "err"
       THEN BuildFails("detect_text") /\ UNCHANGED backoff
       ELSE IF attempt >= MAX_IMAGE_ATTEMPTS
       THEN Proceed("process_image") /\ UNCHANGED backoff
       ELSE Proceed("generate_image") /\ backoff' = backoff + IMAGE_BACKOFF_MS
    /\ UNCHANGED <<builds, prompt_log, attempt, image_calls, prompt, image_data,
                   image_args, processed, image_uploads, challenge>>
    /\ BuildFrame

\* detect_text on the image and the end of the iteration: the loop is left
\* when no text was found or the attempts are used up, else the task sleeps
\* and goes round again
DetectText(answer) ==
    /\ step = "detect_text"
    /\ qa_log' = Append(qa_log, answer)
    /\ IF answer = "err"
       THEN BuildFails("detect_text") /\ UNCHANGED backoff
       ELSE IF answer = "clean"
       THEN Proceed("process_image") /\ UNCHANGED backoff
       ELSE IF attempt >= MAX_IMAGE_ATTEMPTS
       THEN Proceed("process_image") /\ UNCHANGED backoff
       ELSE Proceed("generate_image") /\ backoff' = backoff + IMAGE_BACKOFF_MS
    /\ UNCHANGED <<builds, prompt_log, attempt, image_calls, prompt, image_data,
                   image_args, processed, image_uploads, challenge>>
    /\ BuildFrame

\* variant: the first image of the call is handed to process_image
ProcessImageFirst(ok) ==
    /\ step = "process_image"
    /\ processed' = Append(processed, 1)
    /\ IF ok THEN Proceed("read_files") ELSE BuildFails("process_image")
    /\ UNCHANGED <<builds, prompt_log, attempt, image_calls, qa_log, backoff,
                   prompt, image_data, image_args, image_uploads, challenge>>
    /\ BuildFrame

\* process_image on the image held when the loop was left; it writes the
\* JPEG and the WebP file of that image under a fresh file name
ProcessImage(ok) ==
    /\ step = "process_image"
    /\ processed' = Append(processed, image_data)
    /\ IF ok THEN Proceed("read_files") ELSE BuildFails("process_image")
    /\ UNCHANGED <<builds, prompt_log, attempt, image_calls, qa_log, backoff,
                   prompt, image_data, image_args, image_uploads, challenge>>
    /\ BuildFrame

\* std::fs::read of the JPEG and the WebP file
ReadImageFiles(ok) ==
    /\ step = "read_files"
    /\ IF ok THEN Proceed("upload_jpeg") ELSE BuildFails("read_image_file")
    /\ UNCHANGED <<builds, prompt_log, attempt, image_calls, qa_log, backoff,
                   prompt, image_data, image_args, processed, image_uploads,
                   challenge>>
    /\ BuildFrame

\* the image object stored by an upload: its key and the image it holds
ImageObject(kind) ==
    [key |-> ImageKey(builds, kind), image |-> processed[Len(processed)]]

\* upload_file of the JPEG
UploadJpeg(ok) ==
    /\ step = "upload_jpeg"
    /\ IF ok
       THEN /\ image_uploads' = Append(image_uploads, ImageObject("jpeg"))
            /\ Proceed("upload_webp")
       ELSE /\ UNCHANGED image_uploads
            /\ BuildFails("upload_jpeg")
    /\ UNCHANGED <<builds, prompt_log, attempt, image_calls, qa_log, backoff,
                   prompt, image_data, image_args, processed, challenge>>
    /\ BuildFrame

\* variant: the Challenge keeps the prompt of the first build
NewChallengeFirstPrompt(ws, jpeg_key, jpeg_url, webp_url, text) ==
    [words |-> ws, image_path |-> jpeg_key, image_url_jpg |-> jpeg_url,
     image_url_webp |-> webp_url, prompt |-> 1]

\* Challenge::new
NewChallenge(ws, jpeg_key, jpeg_url, webp_url, text) ==
    [words |-> ws, image_path |-> jpeg_key, image_url_jpg |-> jpeg_url,
     image_url_webp |-> webp_url, prompt |-> text]

\* upload_file of the WebP; create_challenge returns the Challenge, which
\* the closure and Retry::spawn return
UploadWebp(ok) ==
    /\ step = "upload_webp"
    /\ IF ok
       THEN /\ image_uploads' = Append(image_uploads, ImageObject("webp"))
            /\ build_result' = ChallengeOk
            /\ challenge_result' = ChallengeOk
            /\ challenge' = NewChallenge(words, ImageKey(builds, "jpeg"),
                                         UrlOf(ImageKey(builds, "jpeg")),
                                         UrlOf(ImageKey(builds, "webp")), prompt)
            /\ step' = "returned"
            /\ UNCHANGED <<fault, failed_calls, retry_strategy, delays, error_log>>
       ELSE /\ UNCHANGED <<image_uploads, challenge>>
            /\ BuildFails("upload_webp")
    /\ UNCHANGED <<builds, prompt_log, attempt, image_calls, qa_log, backoff,
                   prompt, image_data, image_args, processed>>
    /\ BuildFrame

----------------------------------------------------------------------------
(* App::run *)

Pending == [d \in Difficulties |-> "pending"]

NotBuilt == [d \in Difficulties |-> NoChallenge]

\* variant: every wrapped build is handed the easy group
WordsForEasy(sets, d) == sets["easy"]

\* the word group generate_day hands to the wrapped build of a difficulty
WordsFor(sets, d) == sets[d]

\* the Challenge a wrapped build returns in run number `run` for a date: the
\* words it was given, and the keys and URLs of the two objects its successful
\* create_challenge uploaded; the file names carry the difficulty and a UUID
\* that no other build has
BuiltChallenge(d, ws, run, target) ==
    NewChallenge(ws,
                 ImageKey(<<d, run, target>>, "jpeg"),
                 UrlOf(ImageKey(<<d, run, target>>, "jpeg")),
                 UrlOf(ImageKey(<<d, run, target>>, "webp")),
                 run)

\* the object a URL returned by upload_file points to
KeyOfUrl(url) == url[2]

\* the image keys a Challenge refers to
ChallengeKeys(ch) ==
    {ch.image_path, KeyOfUrl(ch.image_url_jpg), KeyOfUrl(ch.image_url_webp)}

\* the image keys the stored day JSONs refer to
ReferencedKeys(files) ==
    UNION {ChallengeKeys(files[d].day.challenges[c])
              : d \in {x \in DOMAIN files : files[x].kind = "day"},
                c \in Difficulties}

\* the Day assembled by generate_day from the four challenges
Day(d, i, chs) == [date |-> d, id |-> i, challenges |-> chs]

\* storage keys: days/<date>.json, days.json, today.json
DayKey(d) == <<"days", d>>

DaysKey == <<"days.json">>

TodayKey == <<"today.json">>

\* day_json of run: the serialized Day that generate_day returned
DayJson == DayToJson(Day(date, id, built))

NoCalls == [prompt_calls |-> 0, image_calls |-> 0, qa_calls |-> 0]

\* generate_day has not been called
NoJoin ==
    /\ tries = [d \in Difficulties |-> 0]
    /\ failed_first = "none"
    /\ last_build = NoCalls

NoRun == [date |-> "none", id |-> 0]

\* what a finished run leaves for the next one to compare with: its date and
\* id when it returned Ok and no collaborator call failed
ThisRun(res, f) ==
    IF res.status = "ok" /\ f = {} THEN [date |-> date, id |-> id] ELSE NoRun

\* run is called for a date
StartRun(target) ==
    /\ pc \in {"idle", "done"}
    /\ runs < MaxRuns
    /\ runs' = runs + 1
    /\ date' = target
    /\ pc' = "fetch"
    /\ result' = NoResult
    /\ days' = NewDays
    /\ loaded' = NewDays
    /\ id' = 0
    /\ challenges' = Pending
    /\ fetched' = "none"
    /\ faulted' = {}
    /\ uploads' = <<>>
    /\ attempts' = 0
    /\ samples' = 0
    /\ select_result' = NoSelection
    /\ prev' = IF pc = "done" THEN ThisRun(result, faulted) ELSE prev
    /\ UNCHANGED <<word_selector, rng, dry_run, days_json, day_files,
                   today_json, local_files, first_id>>
    /\ today' = "none"
    /\ reads' = 0
    /\ built' = NotBuilt
    \* image objects that no stored day JSON refers to are left out from
    \* here on: no run reads an image object
    /\ image_files' = ReferencedKeys(day_files)
    /\ UNCHANGED <<buildVars, joinVars, added>>

\* variant: a load of the index that returns the read error with ?
LoadDaysPropagating(transport_ok) ==
    /\ pc = "fetch"
    /\ LET f == IF dry_run
                THEN [ok |-> TRUE, days |-> NewDays, how |-> "dry_run"]
                ELSE FetchDays(transport_ok)
           r == ResolveId(f.days, date)
       IN /\ days' = f.days
          /\ reads' = IF dry_run THEN reads ELSE reads + 1
          /\ loaded' = f.days
          /\ fetched' = f.how
          /\ faulted' = IF f.how = "read_error"
                         THEN faulted \cup {"read_days"} ELSE faulted
          /\ IF f.ok /\ r.some
             THEN /\ id' = r.id
                  /\ pc' = "select"
                  /\ UNCHANGED result
             ELSE /\ id' = 0
                  /\ pc' = "done"
                  /\ result' = Err(IF f.ok THEN "id_overflow" ELSE "fetch_days")
    /\ UNCHANGED <<wordVars, storageVars, dry_run, runs, date, challenges,
                   uploads, first_id, prev>>
    /\ UNCHANGED <<today, buildVars, image_files, built, added, joinVars>>

\* run up to the call of generate_day: the index is loaded (a fresh one in
\* dry-run mode or when fetch_days fails) and the id resolved; an id overflow
\* is returned as an error
LoadDays(transport_ok) ==
    /\ pc = "fetch"
    /\ LET f == IF dry_run
                THEN [ok |-> TRUE, days |-> NewDays, how |-> "dry_run"]
                ELSE FetchDays(transport_ok)
           ds == IF f.ok THEN f.days ELSE NewDays
           r == ResolveId(ds, date)
       IN /\ days' = ds
          /\ reads' = IF dry_run THEN reads ELSE reads + 1
          /\ loaded' = ds
          /\ fetched' = f.how
          /\ faulted' = IF f.how = "read_error"
                         THEN faulted \cup {"read_days"} ELSE faulted
          /\ IF r.some
             THEN /\ id' = r.id
                  /\ pc' = "select"
                  /\ UNCHANGED result
             ELSE /\ id' = 0
                  /\ pc' = "done"
                  /\ result' = Err("id_overflow")
    /\ UNCHANGED <<wordVars, storageVars, dry_run, runs, date, challenges,
                   uploads, first_id, prev>>
    /\ UNCHANGED <<today, buildVars, image_files, built, added, joinVars>>

\* one of the four wrapped builds of generate_day runs to its end
BuildChallenge(d) ==
    /\ pc = "build"
    /\ challenges[d] = "pending"
    /\ \E r \in {[ok |-> o.ok, failures |-> (~o.ok \/ o.tries > 1)]
                    : o \in CreateChallengeWithRetry} :
          /\ challenges' = [challenges EXCEPT ![d] = IF r.ok THEN "ok" ELSE "err"]
          /\ faulted' = IF r.failures THEN faulted \cup {"build"} ELSE faulted
          /\ built' = IF r.ok
                      THEN [built EXCEPT ![d] =
                              BuiltChallenge(d, WordsFor(select_result.sets, d),
                                             runs, date)]
                      ELSE built
          /\ image_files' = IF r.ok
                            THEN image_files \cup ChallengeKeys(built'[d])
                            ELSE image_files
    /\ UNCHANGED <<wordVars, days_json, day_files, today_json, local_files,
                   dry_run, runs, date, days, id, result, pc,
                   loaded, fetched, uploads, first_id, prev>>
    /\ UNCHANGED <<today, buildVars, reads, added, joinVars>>

\* variant: a strategy that yields one delay more
DelayLeftOneMore(made) == made <= RETRY_DELAYS + 1

\* Retry::spawn after a failed build, `made` builds made: the strategy
\* yields its next delay, if it has one left, and the build runs again
DelayLeft(made) == made <= RETRY_DELAYS

\* one call of create_challenge by the wrapped build of a difficulty, run to
\* its end: the first Ok is what the wrapped build returns; after an Err the
\* build is called again when the strategy has a delay left, else the Err is
\* returned.  The four wrapped builds take such steps in any order.
BuildAttempt(d) ==
    /\ pc = "build"
    /\ challenges[d] = "pending"
    /\ \E o \in CreateChallenge :
          /\ tries' = [tries EXCEPT ![d] = tries[d] + 1]
          /\ last_build' = [prompt_calls |-> o.prompt_calls,
                            image_calls |-> o.image_calls,
                            qa_calls |-> o.qa_calls]
          /\ faulted' = IF o.ok THEN faulted ELSE faulted \cup {"build"}
          /\ IF o.ok
             THEN /\ challenges' = [challenges EXCEPT ![d] = "ok"]
                  /\ built' = [built EXCEPT ![d] =
                                 BuiltChallenge(d, WordsFor(select_result.sets, d),
                                                runs, date)]
                  /\ image_files' = image_files \cup ChallengeKeys(built'[d])
                  /\ UNCHANGED failed_first
             ELSE IF DelayLeft(tries[d] + 1)
             THEN UNCHANGED <<challenges, built, image_files, failed_first>>
             ELSE /\ challenges' = [challenges EXCEPT ![d] = "err"]
                  /\ failed_first' = IF failed_first = "none" THEN d
                                      ELSE failed_first
                  /\ UNCHANGED <<built, image_files>>
    /\ UNCHANGED <<wordVars, days_json, day_files, today_json, local_files,
                   dry_run, runs, date, days, id, result, pc,
                   loaded, fetched, uploads, first_id, prev>>
    /\ UNCHANGED <<today, buildVars, reads, added>>

\* variant: an unwrapping that looks at the easy result only
FirstFailedEasyOnly(ch, k) == IF ch["easy"] = "err" THEN "easy" ELSE "none"

\* variant: an unwrapping that returns the error of the build that failed
\* first in time
FirstFailedInTime(ch, k) == failed_first

\* the first error in the order generate_day unwraps the results
RECURSIVE FirstFailed(_, _)
FirstFailed(ch, k) ==
    IF k > Len(DifficultyOrder) THEN "none"
    ELSE IF ch[DifficultyOrder[k]] = "err" THEN DifficultyOrder[k]
    ELSE FirstFailed(ch, k + 1)

\* variant: a join that is over as soon as one build has failed (try_join!)
JoinChallengesFailFast(ch) ==
    \/ \E d \in Difficulties : ch[d] = "err"
    \/ \A d \in Difficulties : ch[d] # "pending"

\* tokio::join! is over: generate_day returns the Day, or the error of the
\* first failed build, which run returns
JoinChallengesReady(ch) == \A d \in Difficulties : ch[d] # "pending"

JoinChallenges ==
    /\ pc = "build"
    /\ JoinChallengesReady(challenges)
    /\ IF FirstFailed(challenges, 1) = "none"
       THEN pc' = "upload_day" /\ UNCHANGED result
       ELSE pc' = "done" /\ result' = ChallengeErr(FirstFailed(challenges, 1))
    /\ UNCHANGED <<wordVars, storageVars, dry_run, runs, date, days, id,
                   challenges, historyVars>>
    /\ UNCHANGED <<today, buildVars, publishVars, joinVars>>

\* the day JSON is uploaded to days/<date>.json
UploadDay(upload_ok) ==
    /\ pc = "upload_day"
    /\ IF upload_ok
       THEN /\ day_files' = [day_files EXCEPT ![date] = DayJson]
            /\ uploads' = Append(uploads, DayKey(date))
            /\ first_id' = IF first_id[date].some THEN first_id
                           ELSE [first_id EXCEPT ![date] = [some |-> TRUE, id |-> id]]
            /\ pc' = "write_local"
            /\ UNCHANGED <<result, faulted>>
       ELSE /\ pc' = "done"
            /\ result' = Err("upload_day")
            /\ faulted' = faulted \cup {"upload_day"}
            /\ UNCHANGED <<day_files, uploads, first_id>>
    /\ UNCHANGED <<wordVars, days_json, today_json, local_files,
                   dry_run, runs, date, days, id, challenges,
                   loaded, fetched, prev>>
    /\ UNCHANGED <<today, buildVars, publishVars, joinVars>>

\* the day JSON is written to the output directory
WriteLocal(write_ok) ==
    /\ pc = "write_local"
    /\ IF write_ok
       THEN /\ local_files' = local_files \cup {date}
            /\ pc' = "update_index"
            /\ UNCHANGED <<result, faulted>>
       ELSE /\ pc' = "done"
            /\ result' = Err("write_local")
            /\ faulted' = faulted \cup {"write_local"}
            /\ UNCHANGED local_files
    /\ UNCHANGED <<wordVars, days_json, day_files, today_json,
                   dry_run, runs, date, days, id, challenges,
                   loaded, fetched, uploads, first_id, prev>>
    /\ UNCHANGED <<today, buildVars, publishVars, joinVars>>

\* a date that is not in the index held by the run is added and the index
\* uploaded to days.json
UpdateIndex(upload_ok) ==
    /\ pc = "update_index"
    /\ IF ~FindByDate(days, date).some
       THEN /\ days' = AddDay(days, date, id)
            /\ IF upload_ok
               THEN /\ days_json' = DaysToJson(days')
                    /\ uploads' = Append(uploads, DaysKey)
                    /\ added' = added \cup {DateEntry(date, id)}
                    /\ pc' = "upload_today"
                    /\ UNCHANGED <<result, faulted>>
               ELSE /\ pc' = "done"
                    /\ result' = Err("upload_days")
                    /\ faulted' = faulted \cup {"upload_days"}
                    /\ UNCHANGED <<days_json, uploads, added>>
       ELSE /\ pc' = "upload_today"
            /\ UNCHANGED <<days, days_json, uploads, result, faulted, added>>
    /\ UNCHANGED <<wordVars, day_files, today_json, local_files,
                   dry_run, runs, date, id, challenges,
                   loaded, fetched, first_id, prev>>
    /\ UNCHANGED <<today, buildVars, image_files, built, reads, joinVars>>

\* variant: the today.json upload without the comparison of the dates
UploadTodayAlways(now, upload_ok) ==
    /\ pc = "upload_today"
    /\ today' = now
    /\ IF upload_ok
       THEN /\ today_json' = DayJson
            /\ uploads' = Append(uploads, TodayKey)
            /\ result' = OkResult
            /\ UNCHANGED faulted
       ELSE /\ result' = Err("upload_today")
            /\ faulted' = faulted \cup {"upload_today"}
            /\ UNCHANGED <<today_json, uploads>>
    /\ pc' = "done"
    /\ UNCHANGED <<wordVars, days_json, day_files, local_files,
                   dry_run, runs, date, days, id, challenges,
                   loaded, fetched, first_id, prev>>
    /\ UNCHANGED <<buildVars, publishVars, joinVars>>

\* the local date is read (now is what Local::now() gives at that moment);
\* when it is the target date the day JSON is uploaded to today.json; run
\* returns
UploadToday(now, upload_ok) ==
    /\ pc = "upload_today"
    /\ today' = now
    /\ IF date = now
       THEN IF upload_ok
            THEN /\ today_json' = DayJson
                 /\ uploads' = Append(uploads, TodayKey)
                 /\ result' = OkResult
                 /\ UNCHANGED faulted
            ELSE /\ result' = Err("upload_today")
                 /\ faulted' = faulted \cup {"upload_today"}
                 /\ UNCHANGED <<today_json, uploads>>
       ELSE /\ result' = OkResult
            /\ UNCHANGED <<today_json, uploads, faulted>>
    /\ pc' = "done"
    /\ UNCHANGED <<wordVars, days_json, day_files, local_files,
                   dry_run, runs, date, days, id, challenges,
                   loaded, fetched, first_id, prev>>
    /\ UNCHANGED <<buildVars, publishVars, joinVars>>

----------------------------------------------------------------------------
(* The app: run is called up to MaxRuns times, for any of the dates, on a
   storage that earlier runs may have written *)

\* the words of the days published before the first run of the model
EarlierWordSets ==
    [easy     |-> <<[word |-> W("a"), word_type |-> "object"],
                    [word |-> W("b"), word_type |-> "object"],
                    [word |-> W("c"), word_type |-> "object"]>>,
     medium   |-> <<[word |-> W("d"), word_type |-> "object"],
                    [word |-> W("e"), word_type |-> "object"],
                    [word |-> W("p"), word_type |-> "gerund"]>>,
     hard     |-> <<[word |-> W("f"), word_type |-> "object"],
                    [word |-> W("q"), word_type |-> "gerund"],
                    [word |-> W("r"), word_type |-> "gerund"]>>,
     dreaming |-> <<[word |-> W("g"), word_type |-> "object"],
                    [word |-> W("s"), word_type |-> "gerund"],
                    [word |-> W("x"), word_type |-> "concept"]>>]

\* the stored index before the first run: absent, unparsable, or an index
\* with each date once and pairwise distinct ids, as earlier runs or an
\* import of older days left it
InitialIndexes ==
    {Absent, Garbage,
     DaysToJson(<<>>),
     DaysToJson(<<DateEntry(OtherDate, 1)>>),
     DaysToJson(<<DateEntry(OtherDate, 1), DateEntry("2099-01-01", 2)>>),
     DaysToJson(<<DateEntry(OtherDate, 3), DateEntry("2099-01-01", 2)>>),
     DaysToJson(<<DateEntry(OtherDate, -2)>>),
     DaysToJson(<<DateEntry("2099-01-02", 1), DateEntry(OtherDate, I32_MAX)>>),
     DaysToJson(<<DateEntry(OtherDate, I32_MAX - 1)>>)}

\* the challenges of a day published before the first run of the model
EarlierChallenges(d) ==
    [c \in Difficulties |-> BuiltChallenge(c, EarlierWordSets[c], 0, d)]

IndexedBefore(index, d) ==
    FindByDate(IF index.kind = "days" THEN index.days ELSE NewDays, d)

Init ==
    /\ word_selector \in {TestCatalog, NoGerundCatalog}
    /\ rng = 0
    /\ dry_run \in BOOLEAN
    /\ days_json \in InitialIndexes
    \* a dry-run app is built on a fresh in-memory storage
    /\ dry_run => days_json = Absent
    /\ day_files = [d \in AllDates |->
                      IF IndexedBefore(days_json, d).some
                      THEN DayToJson(Day(d, IndexedBefore(days_json, d).id,
                                         EarlierChallenges(d)))
                      ELSE Absent]
    /\ image_files = ReferencedKeys(day_files)
    /\ built = NotBuilt
    /\ reads = 0
    /\ added = {}
    /\ NoJoin
    /\ today_json = Absent
    /\ first_id = [d \in AllDates |-> IndexedBefore(days_json, d)]
    /\ local_files = {}
    /\ pc = "idle"
    /\ runs = 0
    /\ date = "none"
    /\ days = NewDays
    /\ loaded = NewDays
    /\ id = 0
    /\ challenges = Pending
    /\ result = NoResult
    /\ fetched = "none"
    /\ faulted = {}
    /\ uploads = <<>>
    /\ prev = NoRun
    /\ attempts = 0
    /\ samples = 0
    /\ select_result = NoSelection
    /\ today = "none"
    /\ NoBuild

Next ==
    \/ \E target \in Dates : StartRun(target)
    \/ \E transport_ok \in BOOLEAN : LoadDays(transport_ok)
    \/ SelectWordsAttempt
    \/ \E d \in Difficulties : BuildChallenge(d)
    \/ JoinChallenges
    \/ \E upload_ok \in BOOLEAN : UploadDay(upload_ok)
    \/ \E write_ok \in BOOLEAN : WriteLocal(write_ok)
    \/ \E upload_ok \in BOOLEAN : UpdateIndex(upload_ok)
    \/ \E now \in AllDates, upload_ok \in BOOLEAN : UploadToday(now, upload_ok)

Spec == Init /\ [][Next]_vars

----------------------------------------------------------------------------
(* select_words called on a selector built from any of the catalogs *)

InitWords ==
    /\ word_selector \in Catalogs
    /\ rng \in 0..MaxSeed
    /\ pc = "select"
    /\ attempts = 0
    /\ samples = 0
    /\ select_result = NoSelection
    /\ dry_run = TRUE
    /\ days_json = Absent
    /\ day_files = [d \in AllDates |-> Absent]
    /\ today_json = Absent
    /\ first_id = [d \in AllDates |-> [some |-> FALSE, id |-> 0]]
    /\ local_files = {}
    /\ runs = 0
    /\ date = "none"
    /\ days = NewDays
    /\ loaded = NewDays
    /\ id = 0
    /\ challenges = Pending
    /\ result = NoResult
    /\ fetched = "none"
    /\ faulted = {}
    /\ uploads = <<>>
    /\ prev = NoRun
    /\ today = "none"
    /\ NoBuild
    /\ image_files = {}
    /\ built = NotBuilt
    /\ reads = 0
    /\ added = {}
    /\ NoJoin

NextWords == SelectWordsAttempt

SpecWords == InitWords /\ [][NextWords]_vars

----------------------------------------------------------------------------
(* create_challenge_with_retry called for one difficulty, with collaborators
   that may fail, or report text, at any call *)

InitChallenge ==
    /\ word_selector = TestCatalog
    /\ rng = 0
    /\ pc = "build"
    /\ attempts = 0
    /\ samples = 0
    /\ select_result = NoSelection
    /\ dry_run = TRUE
    /\ days_json = Absent
    /\ day_files = [d \in AllDates |-> Absent]
    /\ today_json = Absent
    /\ first_id = [d \in AllDates |-> [some |-> FALSE, id |-> 0]]
    /\ local_files = {}
    /\ runs = 0
    /\ date = "none"
    /\ days = NewDays
    /\ loaded = NewDays
    /\ id = 0
    /\ challenges = Pending
    /\ result = NoResult
    /\ fetched = "none"
    /\ faulted = {}
    /\ uploads = <<>>
    /\ prev = NoRun
    /\ today = "none"
    /\ difficulty \in Difficulties
    /\ step = "generate_prompt"
    /\ retry_strategy = RetryStrategy
    /\ builds = 0
    /\ attempt = 0
    /\ prompt_log = <<>>
    /\ image_calls = 0
    /\ qa_log = <<>>
    /\ fault = "none"
    /\ failed_calls = {}
    /\ delays = <<>>
    /\ backoff = 0
    /\ build_result = NoBuildResult
    /\ challenge_result = NoBuildResult
    /\ error_log = <<>>
    /\ words = EarlierWordSets[difficulty]
    /\ prompt = 0
    /\ image_data = 0
    /\ image_args = <<>>
    /\ processed = <<>>
    /\ image_uploads = <<>>
    /\ challenge = NoChallenge
    /\ image_files = {}
    /\ built = NotBuilt
    /\ reads = 0
    /\ added = {}
    /\ NoJoin

NextChallenge ==
    \/ \E ok \in BOOLEAN : GeneratePrompt(ok)
    \/ \E ok \in BOOLEAN : GenerateImage(ok)
    \/ \E answer \in {"err", "text", "clean"} : DetectText(answer)
    \/ \E ok \in BOOLEAN : ProcessImage(ok)
    \/ \E ok \in BOOLEAN : ReadImageFiles(ok)
    \/ \E ok \in BOOLEAN : UploadJpeg(ok)
    \/ \E ok \in BOOLEAN : UploadWebp(ok)

SpecChallenge == InitChallenge /\ [][NextChallenge]_vars

----------------------------------------------------------------------------
(* One run from the call of generate_day on, the four wrapped builds
   interleaved build by build.  The index was not found and the id resolved
   is 1. *)

InitDay ==
    /\ word_selector \in {TestCatalog, SmallCatalog, NoGerundCatalog}
    /\ rng = 0
    /\ pc = "select"
    /\ attempts = 0
    /\ samples = 0
    /\ select_result = NoSelection
    /\ dry_run = FALSE
    /\ days_json = Absent
    /\ day_files = [d \in AllDates |-> Absent]
    /\ today_json = Absent
    /\ first_id = [d \in AllDates |-> [some |-> FALSE, id |-> 0]]
    /\ local_files = {}
    /\ runs = 1
    /\ date = "2099-01-01"
    /\ days = NewDays
    /\ loaded = NewDays
    /\ id = 1
    /\ challenges = Pending
    /\ result = NoResult
    /\ fetched = "not_found"
    /\ faulted = {}
    /\ uploads = <<>>
    /\ prev = NoRun
    /\ today = "none"
    /\ NoBuild
    /\ image_files = {}
    /\ built = NotBuilt
    /\ reads = 1
    /\ added = {}
    /\ NoJoin

NextDay ==
    \/ SelectWordsAttempt
    \/ \E d \in Difficulties : BuildAttempt(d)
    \/ JoinChallenges
    \/ \E upload_ok \in BOOLEAN : UploadDay(upload_ok)
    \/ \E write_ok \in BOOLEAN : WriteLocal(write_ok)
    \/ \E upload_ok \in BOOLEAN : UpdateIndex(upload_ok)
    \/ \E now \in AllDates, upload_ok \in BOOLEAN : UploadToday(now, upload_ok)

SpecDay == InitDay /\ [][NextDay]_vars

\* every collaborator call returns and the runtime polls a task that can
\* go on: a step that can be taken is taken
SpecDayLive == SpecDay /\ WF_vars(NextDay)

----------------------------------------------------------------------------
(* C1: a returned selection has no two words, across its four groups, whose
   texts are equal after lowercasing, whatever the catalog *)
Selected == AllWords(select_result.sets)

C1_NoCaseInsensitiveDuplicates ==
    select_result.status = "ok" =>
        \A i, j \in 1..Len(Selected) :
            i # j => ToLowercase(Selected[i].word) # ToLowercase(Selected[j].word)

\* a selection was returned from a catalog with case variants and shared
\* words, after at least one rejected attempt
C1_Witness ==
    /\ select_result.status = "ok"
    /\ word_selector = RichCatalog
    /\ attempts > 1
    /\ Len(Selected) = 12

----------------------------------------------------------------------------
(* Claims about run, checked under Spec *)

Uploaded(key) == \E k \in 1..Len(uploads) : uploads[k] = key

AfterLoad == pc \notin {"idle", "fetch"}

InLoaded(d) == \E k \in 1..Len(loaded) : loaded[k].date = d

FetchFailed == fetched \in {"read_error", "not_found", "parse_error"}

(* C2: when a wrapped build has failed, run returns an error and has
   uploaded no JSON object; a day JSON is uploaded only after all four
   challenges were built *)
C2_NoPartialDay ==
    /\ (\E d \in Difficulties : challenges[d] = "err") =>
          /\ uploads = <<>>
          /\ pc = "done" => result.status = "err"
    /\ uploads # <<>> => \A d \in Difficulties : challenges[d] = "ok"

\* run returned the error of one failed build while the other three
\* builds had succeeded
C2_Witness ==
    /\ pc = "done"
    /\ result = ChallengeErr("hard")
    /\ \A d \in Difficulties \ {"hard"} : challenges[d] = "ok"
    /\ uploads = <<>>

(* C3: every day JSON stored for a date carries the id of the first day JSON
   published for that date *)
C3_IdNeverChanges ==
    \A d \in AllDates :
        (day_files[d].kind = "day" /\ first_id[d].some) =>
            day_files[d].day.id = first_id[d].id

(* C4 as claimed: a run that follows a run for the same date, both without a
   failed collaborator call, publishes the same id and does not upload
   days.json, whatever dry_run is *)
C4_SecondRunAnyConfiguration ==
    (pc = "done" /\ result.status = "ok" /\ faulted = {} /\ prev.date = date) =>
        /\ id = prev.id
        /\ ~Uploaded(DaysKey)

(* C4 as amended: with dry_run false, a run that follows a run for the same
   date, both without a failed collaborator call, publishes the same id and
   does not upload days.json *)
C4_SecondRunSameId ==
    (pc = "done" /\ result.status = "ok" /\ faulted = {} /\ prev.date = date
        /\ ~dry_run) =>
        /\ id = prev.id
        /\ day_files[date].day.id = prev.id
        /\ ~Uploaded(DaysKey)

\* the second of two clean runs for one date has published its day
C4_Witness ==
    /\ pc = "done" /\ result.status = "ok" /\ faulted = {}
    /\ prev.date = date /\ ~dry_run
    /\ Uploaded(DayKey(date))
    /\ id > 1

(* C5: when the loaded index has an entry for the target date, the run uses
   the id of that entry, whatever else the index holds, and the day it
   publishes carries it *)
C5_ExistingIdReused ==
    (AfterLoad /\ InLoaded(date)) =>
        /\ result.error # "id_overflow"
        /\ \E k \in 1..Len(loaded) : loaded[k].date = date /\ loaded[k].id = id
        /\ Uploaded(DayKey(date)) => day_files[date].day.id = id

\* a day was published under the id of its entry, which is neither the
\* largest id of the index nor its last entry
C5_Witness ==
    /\ AfterLoad /\ InLoaded(date)
    /\ Uploaded(DayKey(date))
    /\ \E k \in 1..Len(loaded) : loaded[k].id > id
    /\ loaded[Len(loaded)].date # date

(* C6: when the loaded index has no entry for the target date, the id is one
   more than the largest id of the index, and 1 for an empty index *)
C6_NewIdIsMaxPlusOne ==
    (AfterLoad /\ ~InLoaded(date) /\ result.error # "id_overflow") =>
        /\ IF Len(loaded) = 0
           THEN id = 1
           ELSE /\ \A k \in 1..Len(loaded) : loaded[k].id < id
                /\ \E k \in 1..Len(loaded) : loaded[k].id = id - 1
        /\ Uploaded(DayKey(date)) => day_files[date].day.id = id

\* a day was published for a new date under an index whose largest id is not
\* in its last entry
C6_Witness ==
    /\ AfterLoad /\ ~InLoaded(date)
    /\ Uploaded(DayKey(date))
    /\ Len(loaded) >= 2
    /\ loaded[Len(loaded)].id # id - 1

(* C7: when the target date is not in the loaded index and the largest id is
   i32::MAX, run returns the overflow error and nothing else happens: no
   word selection, no build, no upload *)
C7_OverflowFailsBeforeAnything ==
    (AfterLoad /\ ~InLoaded(date)
        /\ \E k \in 1..Len(loaded) : loaded[k].id = I32_MAX) =>
        /\ pc = "done"
        /\ result = Err("id_overflow")
        /\ uploads = <<>>
        /\ attempts = 0 /\ samples = 0 /\ select_result = NoSelection
        /\ challenges = Pending

\* run returned the overflow error
C7_Witness ==
    /\ pc = "done"
    /\ result = Err("id_overflow")
    /\ ~InLoaded(date)
    /\ \E k \in 1..Len(loaded) : loaded[k].id = I32_MAX

(* C8: when the read or the parse of days.json fails, the run goes on with an
   empty index, and when it returns an error something else has failed *)
C8_FetchFailureTolerated ==
    FetchFailed =>
        /\ AfterLoad
        /\ loaded = NewDays
        /\ id = 1
        /\ result.error \notin {"id_overflow", "fetch_days"}
        /\ (pc = "done" /\ result.status = "err") =>
              \/ faulted \ {"read_days"} # {}
              \/ select_result.status = "err"

\* run returned Ok although the read of a stored, well-formed index failed
C8_Witness ==
    /\ pc = "done"
    /\ result.status = "ok"
    /\ fetched = "read_error"
    /\ Uploaded(DaysKey)

(* C9: every entry of the stored index stays in the stored index *)
C9_AppendOnly == [][StoredEntries \subseteq StoredEntries']_vars

(* C10: the stored index has each date at most once and pairwise distinct
   ids *)
C10_IndexUnique ==
    days_json.kind = "days" =>
        \A i, j \in 1..Len(days_json.days) :
            i # j => /\ days_json.days[i].date # days_json.days[j].date
                     /\ days_json.days[i].id # days_json.days[j].id

\* two runs have each added an entry to a stored index
C10_Witness ==
    /\ days_json.kind = "days"
    /\ Len(days_json.days) >= 3
    /\ runs = 2
    /\ Uploaded(DaysKey)
    /\ prev.date \notin {"none", date}

----------------------------------------------------------------------------
(* C11: run uploads today.json if and only if the target date is the local
   date it reads at the check, the bytes uploaded are those uploaded to
   days/<date>.json in the same run, and a run for another date leaves
   today.json as it was *)
TodayUploadIssued == Uploaded(TodayKey) \/ "upload_today" \in faulted

C11_TodayIffCurrentDate ==
    [][/\ (today_json' # today_json \/ (Uploaded(TodayKey)' /\ ~Uploaded(TodayKey)))
            => /\ pc = "upload_today"
               /\ date = today'
               /\ Uploaded(DayKey(date))
               /\ today_json' = day_files[date]
       /\ (pc = "upload_today" /\ pc' = "done")
            => (TodayUploadIssued' <=> date = today')]_vars

\* a run for the current date has uploaded today.json, and a later run for
\* another date has returned Ok and left it there
C11_Witness ==
    /\ pc = "done"
    /\ runs = 2
    /\ result.status = "ok"
    /\ today # date
    /\ ~Uploaded(TodayKey)
    /\ today_json # Absent
    /\ today_json.day.date = prev.date
    /\ today_json = day_files[prev.date]

----------------------------------------------------------------------------
(* C12: for one difficulty create_challenge is called at most 3 times in
   all, the first call included, and the delay between two consecutive
   calls is always 2 time units (2000 ms) *)
C12_AtMostThreeBuilds ==
    /\ builds <= 3
    /\ \A i \in 1..Len(delays) : delays[i] = 2000

(* C13: when generate_prompt fails on its first two calls for a difficulty
   and succeeds on the third, every other call succeeding, the wrapped
   build returns the Challenge and generate_prompt was called exactly 3
   times: the wrapper does not give up after the two failures and makes no
   fourth call *)
OnlyPromptFailed == failed_calls \subseteq {"generate_prompt"}

C13_ThirdPromptSucceeds ==
    /\ (step = "returned" /\ OnlyPromptFailed /\ Len(prompt_log) < 3)
          => challenge_result = ChallengeOk
    /\ (/\ Len(prompt_log) >= 3
        /\ ~prompt_log[1] /\ ~prompt_log[2] /\ prompt_log[3]
        /\ OnlyPromptFailed)
          => /\ Len(prompt_log) = 3
             /\ builds = 3
             /\ step = "returned" => challenge_result = ChallengeOk

\* the wrapped build has returned the Challenge of its third build, after
\* two builds that failed at generate_prompt
C13_Witness ==
    /\ step = "returned"
    /\ prompt_log = <<FALSE, FALSE, TRUE>>
    /\ failed_calls = {"generate_prompt"}
    /\ challenge_result = ChallengeOk
    /\ delays = <<2000, 2000>>

(* C14: when every build fails, the wrapped build returns the error of the
   last build, and that error value carries the difficulty label of the
   build *)
C14_LastErrorTagged ==
    (step = "returned" /\ challenge_result.status = "err")
        => /\ challenge_result.error.call = fault
           /\ challenge_result.error.label = difficulty

(* C15: when detect_text reports text on the first k images of one
   create_challenge call (k = 0, 1 or 2) and none on image k + 1, the call
   makes exactly k + 1 generate_image calls and k + 1 detect_text calls and,
   no call of it failing, returns a Challenge *)
InvocationOver == builds > 0 /\ step \in {"generate_prompt", "returned"}

TextThenClean(k) ==
    /\ Len(qa_log) >= k + 1
    /\ \A i \in 1..k : qa_log[i] = "text"
    /\ qa_log[k + 1] = "clean"

C15_CleanImageEndsLoop ==
    \A k \in 0..2 :
        TextThenClean(k)
            => /\ Len(qa_log) = k + 1
               /\ image_calls = k + 1
               /\ step \notin {"generate_image", "detect_text"}
               /\ (InvocationOver /\ fault = "none") => build_result = ChallengeOk

\* a create_challenge call has returned a Challenge after two images with
\* text and a third without
C15_Witness ==
    /\ step = "returned"
    /\ qa_log = <<"text", "text", "clean">>
    /\ image_calls = 3
    /\ backoff = 2 * IMAGE_BACKOFF_MS
    /\ build_result = ChallengeOk

(* C16: when detect_text reports text on every call, one create_challenge
   call leaves the image loop after exactly 3 images, never makes a fourth,
   and returns a Challenge unless a call of it fails: text alone never makes
   the build fail *)
AllText == \A i \in 1..Len(qa_log) : qa_log[i] = "text"

C16_PersistentTextAccepted ==
    AllText
        => /\ image_calls <= 3
           /\ Len(qa_log) = 3
                 => /\ image_calls = 3
                    /\ step \notin {"generate_image", "detect_text"}
                    /\ fault \notin {"generate_image", "detect_text"}
           /\ (InvocationOver /\ fault = "none")
                 => /\ build_result = ChallengeOk
                    /\ image_calls = 3

\* a create_challenge call has returned a Challenge after three images that
\* all had text
C16_Witness ==
    /\ step = "returned"
    /\ qa_log = <<"text", "text", "text">>
    /\ image_calls = 3
    /\ build_result = ChallengeOk

----------------------------------------------------------------------------
(* C17: a returned selection has 3 words per difficulty: easy 3 objects;
   medium 2 objects and 1 gerund; hard 1 object and 2 gerunds; dreaming 1
   object, 1 gerund and 1 concept; and the type of each word is the category
   of the list it was drawn from *)
CountType(ws, t) ==
    Cardinality({i \in 1..Len(ws) : ws[i].word_type = t})

Composition(ws, objects, gerunds, concepts) ==
    /\ Len(ws) = 3
    /\ CountType(ws, "object") = objects
    /\ CountType(ws, "gerund") = gerunds
    /\ CountType(ws, "concept") = concepts

ListOf(t) ==
    CASE t = "object" -> word_selector.objects
      [] t = "gerund" -> word_selector.gerunds
      [] t = "concept" -> word_selector.concepts

C17_FixedComposition ==
    select_result.status = "ok" =>
        /\ Composition(select_result.sets.easy, 3, 0, 0)
        /\ Composition(select_result.sets.medium, 2, 1, 0)
        /\ Composition(select_result.sets.hard, 1, 2, 0)
        /\ Composition(select_result.sets.dreaming, 1, 1, 1)
        /\ \A i \in 1..Len(Selected) :
              /\ Selected[i].word_type \in {"object", "gerund", "concept"}
              /\ \E k \in 1..Len(ListOf(Selected[i].word_type)) :
                    ListOf(Selected[i].word_type)[k] = Selected[i].word

\* a selection of twelve words was returned from the catalog whose lists
\* share words
C17_Witness ==
    /\ select_result.status = "ok"
    /\ word_selector = RichCatalog
    /\ Len(Selected) = 12

(* C18 as stated: for a catalog whose lists are each at least as long as the
   largest single draw from them (3 objects, 2 gerunds, 1 concept),
   select_words returns a selection, not an error *)
Sufficient ==
    /\ Len(word_selector.objects) >= 3
    /\ Len(word_selector.gerunds) >= 2
    /\ Len(word_selector.concepts) >= 1

C18_SufficientCatalogSucceeds ==
    (Sufficient /\ select_result.status # "none") => select_result.status = "ok"

(* C18 amended: for such a catalog select_words never returns the
   insufficient-words error: it returns a selection or, after 100 attempts
   of which none was free of duplicates, the selection-exhausted error *)
C18_SufficientNeverInsufficient ==
    (Sufficient /\ select_result.status # "none")
        => \/ select_result.status = "ok"
           \/ /\ select_result.error = "no_unique_words"
              /\ attempts = MAX_ATTEMPTS
              /\ samples = MAX_ATTEMPTS * Len(DrawPlan)

\* select_words has returned the selection-exhausted error for a catalog
\* whose lists are long enough for every single draw
C18_Witness ==
    /\ Sufficient
    /\ word_selector = SmallCatalog
    /\ select_result.status = "err"
    /\ select_result.error = "no_unique_words"
    /\ attempts = MAX_ATTEMPTS

(* C19: when a category list is shorter than the largest draw from it,
   select_words returns the insufficient-words error on its first attempt
   and has drawn no random sample from any list *)
C19_InsufficientBeforeSampling ==
    (~Sufficient /\ select_result.status # "none")
        => /\ select_result.status = "err"
           /\ select_result.error = "not_enough_words"
           /\ attempts = 1
           /\ samples = 0

(* C20: a failure of the local write of the day JSON does not make run fail
   and does not keep run from the days.json and today.json uploads that
   follow it *)
C20_LocalWriteBestEffort ==
    (pc = "done" /\ faulted = {"write_local"})
        => /\ result.status = "ok"
           /\ ~InLoaded(date) => Uploaded(DaysKey)
           /\ date = today => Uploaded(TodayKey)

----------------------------------------------------------------------------
(* C21: in one create_challenge call generate_prompt is called exactly once,
   before any generate_image call; every generate_image call of it is given
   that prompt and the word group of the build; after an image with text
   only generate_image is run again, after a wait of 1 time unit (1000 ms) *)
TextRetries ==
    Cardinality({i \in 1..Len(qa_log) :
                    qa_log[i] = "text" /\ i < MAX_IMAGE_ATTEMPTS})

C21_OnePromptPerBuild ==
    /\ Len(prompt_log) = builds
    /\ image_calls > 0 => (prompt_log[builds] /\ prompt = builds)
    /\ Len(image_args) = image_calls
    /\ \A i \in 1..Len(image_args) :
          image_args[i] = [prompt |-> builds, words |-> EarlierWordSets[difficulty]]
    /\ backoff = 1000 * TextRetries
    /\ image_calls <= TextRetries + 1

\* the second build of a difficulty has generated a third image with the
\* prompt of that build, after two images with text
C21_Witness ==
    /\ builds = 2
    /\ prompt_log = <<FALSE, TRUE>>
    /\ qa_log = <<"text", "text">>
    /\ image_calls = 3
    /\ backoff = 2000
    /\ step = "detect_text"

(* C22: when generate_prompt, generate_image or detect_text returns an
   error, the create_challenge call returns that error at once: no further
   provider call, no process_image call, no upload; an error of detect_text
   is neither an image without text nor a counted image with text *)
ProviderCalls == {"generate_prompt", "generate_image", "detect_text"}

C22_ProviderErrorReturned ==
    /\ fault \in ProviderCalls
          => /\ InvocationOver
             /\ build_result = ChallengeFailed(ErrorOf(fault))
             /\ processed = <<>>
             /\ image_uploads = <<>>
    /\ fault = "generate_prompt" => (image_calls = 0 /\ qa_log = <<>>)
    /\ fault = "generate_image" => Len(qa_log) = image_calls - 1
    /\ fault = "detect_text"
          => /\ Len(qa_log) = image_calls
             /\ qa_log[Len(qa_log)] = "err"
             /\ backoff = IMAGE_BACKOFF_MS * (Len(qa_log) - 1)
    /\ \A i \in 1..Len(qa_log) :
          qa_log[i] = "err" => (i = Len(qa_log) /\ fault = "detect_text")

\* the text detector has failed on the second image of a build
C22_Witness ==
    /\ fault = "detect_text"
    /\ qa_log = <<"text", "err">>
    /\ image_calls = 2
    /\ build_result = ChallengeFailed(ErrorOf("detect_text"))

(* C23: after a build has failed at any call, the next build starts at
   generate_prompt with the same word group and the image attempt counter
   at zero; the Challenge finally returned holds the prompt, the image key
   and the URLs of the successful build only *)
C23_RetryFromTheBeginning ==
    [][/\ (fault' # "none" /\ fault' # fault)
             => step' \in {"generate_prompt", "returned"}
       /\ (step = "generate_prompt" /\ builds > 0)
             => /\ fault # "none"
                /\ builds' = builds + 1
                /\ Len(prompt_log') = Len(prompt_log) + 1
                /\ attempt' = 0
                /\ image_calls' = 0
                /\ words' = words
       /\ (step' = "returned" /\ challenge_result'.status = "ok")
             => /\ prompt_log'[builds']
                /\ challenge' =
                      [words |-> words,
                       image_path |-> ImageKey(builds', "jpeg"),
                       image_url_jpg |-> UrlOf(ImageKey(builds', "jpeg")),
                       image_url_webp |-> UrlOf(ImageKey(builds', "webp")),
                       prompt |-> builds']
                /\ \A i \in 1..Len(image_uploads') :
                      image_uploads'[i].key[2] = builds']_vars

\* the third build has returned the Challenge after a build that failed at
\* the WebP upload and one that failed at process_image
C23_Witness ==
    /\ step = "returned"
    /\ builds = 3
    /\ challenge.prompt = 3
    /\ challenge.image_path = ImageKey(3, "jpeg")
    /\ failed_calls = {"upload_webp", "process_image"}

(* C26: the image handed to process_image is the one generated last: the
   first image without text, or the third when all three had text;
   process_image is called once per successful create_challenge call, and
   an image that was followed by another generate_image call is neither
   processed nor uploaded *)
C26_LatestImageProcessed ==
    /\ Len(processed) <= 1
    /\ build_result = ChallengeOk => Len(processed) = 1
    /\ processed # <<>>
          => /\ processed[1] = image_calls
             /\ Len(qa_log) = image_calls
             /\ \/ qa_log[processed[1]] = "clean"
                \/ processed[1] = 3 /\ AllText
    /\ \A i \in 1..Len(image_uploads) : image_uploads[i].image = image_calls

\* a build has uploaded both files of its second image, the first one
\* having had text
C26_Witness ==
    /\ qa_log = <<"text", "clean">>
    /\ processed = <<2>>
    /\ Len(image_uploads) = 2
    /\ build_result = ChallengeOk

IndexUploadCalls ==
    Cardinality({k \in 1..Len(uploads) : uploads[k] = DaysKey})
    + (IF "upload_days" \in faulted THEN 1 ELSE 0)

(* C25: in one run days.json is read at most once and its upload is called
   at most once; it is uploaded only when the target date is not in the
   index loaded at the start of the run, and what is uploaded is the loaded
   entries in their order followed by one new entry of the target date with
   the id of the day JSON the run published *)
C25_IndexReadAndWrittenOnce ==
    /\ reads <= 1
    /\ IndexUploadCalls <= 1
    /\ Uploaded(DaysKey) =>
          /\ ~InLoaded(date)
          /\ days_json = DaysToJson(loaded \o <<[date |-> date, id |-> id]>>)
          /\ Uploaded(DayKey(date))
          /\ day_files[date].day.id = id

C25_Witness ==
    /\ reads = 1
    /\ Uploaded(DaysKey)
    /\ Len(loaded) = 2

\* the JSON uploads of a run come in the order day JSON, index, today.json
JsonUploadOrder ==
    \A i, j \in 1..Len(uploads) :
        i < j => /\ uploads[i] # TodayKey
                 /\ uploads[j] # DayKey(date)
                 /\ uploads[i] # uploads[j]

\* the entries of the stored index that a run added
AddedEntries == StoredEntries \cap added

(* C28: the JSON uploads of a run come after the image uploads of all four
   challenges and in the order day JSON, index, today.json; so in every
   reachable storage state each entry {date, id} that a run added to
   days.json has a stored days/<date>.json with that id, and every image
   key a stored day JSON refers to is stored, also when a later upload
   failed *)
C28_UploadOrderKeepsStorageConsistent ==
    /\ JsonUploadOrder
    /\ Uploaded(DayKey(date)) =>
          \A d \in Difficulties : ChallengeKeys(built[d]) \subseteq image_files
    /\ (Uploaded(DaysKey) \/ Uploaded(TodayKey)) => Uploaded(DayKey(date))
    /\ \A e \in AddedEntries :
          /\ day_files[e.date].kind = "day"
          /\ day_files[e.date].day.id = e.id
    /\ ReferencedKeys(day_files) \subseteq image_files

\* generate_day has returned: the join is over
GenerateDayReturned == select_result.status = "ok" /\ pc # "build"

\* generate_day has returned a Day
DayReturned == GenerateDayReturned /\ result.error # "challenge"

(* C24: generate_day returns only when all four wrapped builds have
   returned; a failed build cancels no other: each of the others goes through
   its own builds to its first Ok or to the end of its retries; the Day is
   assembled only after all four, in every interleaving *)
C24_JoinWaitsForAll ==
    /\ GenerateDayReturned =>
          \A d \in Difficulties :
              /\ challenges[d] # "pending"
              /\ challenges[d] = "err" => tries[d] = RETRY_DELAYS + 1
              /\ challenges[d] = "ok" => tries[d] \in 1..(RETRY_DELAYS + 1)
    /\ DayReturned => \A d \in Difficulties : challenges[d] = "ok"
    /\ \A d \in Difficulties :
          (pc = "build" /\ challenges[d] = "pending") => ENABLED BuildAttempt(d)

C24_Witness ==
    /\ pc = "done"
    /\ failed_first = "easy"
    /\ challenges["medium"] = "err"
    /\ challenges["hard"] = "ok" /\ tries["hard"] = RETRY_DELAYS + 1
    /\ challenges["dreaming"] = "ok" /\ tries["dreaming"] = 1

\* the words of the Day generate_day returned, group by group
DayWords ==
    built["easy"].words \o built["medium"].words
        \o built["hard"].words \o built["dreaming"].words

(* C27: in every Day that generate_day returns, the words of the challenge
   of each difficulty are the group of that difficulty in the one selection
   of the call, whatever the interleaving and the number of retries; so the
   12 words of the Day are pairwise distinct after lowercasing *)
C27_DayWordsAreTheSelection ==
    DayReturned =>
        /\ \A d \in Difficulties : built[d].words = select_result.sets[d]
        /\ Uploaded(DayKey(date)) =>
              \A d \in Difficulties :
                  day_files[date].day.challenges[d].words = select_result.sets[d]
        /\ Len(DayWords) = 12
        /\ \A i, j \in 1..Len(DayWords) :
              i # j => ToLowercase(DayWords[i].word) # ToLowercase(DayWords[j].word)

C27_Witness ==
    /\ DayReturned
    /\ Uploaded(DayKey(date))
    /\ tries["easy"] = 1
    /\ tries["medium"] = RETRY_DELAYS + 1
    /\ tries["hard"] = 2
    /\ tries["dreaming"] = 3

(* C29: when more than one wrapped build has failed, the error generate_day
   and run return is that of the first failed difficulty in the order easy,
   medium, hard, dreaming, whichever failed first in time *)
C29_FirstErrorInDeclarationOrder ==
    (pc = "done" /\ result.error = "challenge") =>
        /\ challenges[result.origin] = "err"
        /\ \A k \in 1..Len(DifficultyOrder) :
              DifficultyOrder[k] = result.origin =>
                  \A m \in 1..(k - 1) : challenges[DifficultyOrder[m]] # "err"

C29_Witness ==
    /\ pc = "done"
    /\ result.error = "challenge"
    /\ failed_first = "dreaming"
    /\ challenges["medium"] = "err"
    /\ challenges["easy"] = "ok"
    /\ result.origin = "medium"

\* the bounds of the loops of a run
LoopBounds ==
    /\ attempts <= MAX_ATTEMPTS
    /\ select_result.error = "no_unique_words" => attempts = MAX_ATTEMPTS
    /\ \A d \in Difficulties : tries[d] <= RETRY_DELAYS + 1
    /\ tries # [d \in Difficulties |-> 0] =>
          /\ last_build.prompt_calls = 1
          /\ last_build.image_calls <= MAX_IMAGE_ATTEMPTS
          /\ last_build.qa_calls <= MAX_IMAGE_ATTEMPTS

\* select_words goes round again only after an attempt with a duplicate
SelectionStopsAtFirstUnique ==
    (pc = "select" /\ pc' = "select" /\ attempts' = attempts + 1) =>
        ~AllWordsUnique(GenerateWordSets(word_selector, rng).sets)

(* C30: when every collaborator call returns, run terminates: select_words
   returns at its first duplicate-free attempt and gives up after exactly
   100 attempts; each difficulty makes at most 4 builds; each build makes
   one prompt call and at most 3 image and 3 detection calls *)
C30_RunTerminates ==
    /\ <>(pc = "done")
    /\ []LoopBounds
    /\ [][SelectionStopsAtFirstUnique]_vars

C30_Witness ==
    /\ pc = "done"
    /\ result.status = "ok"
    /\ attempts > 1
    /\ \A d \in Difficulties : tries[d] = RETRY_DELAYS + 1
    /\ last_build.image_calls = MAX_IMAGE_ATTEMPTS

====
